---- MODULE Spec2Model ----
(***************************************************************************)
(* The two notebooks as state machines.                                    *)
(*                                                                         *)
(*   Spec         the autograd calls the notebooks make (nd.array,         *)
(*                attach_grad, record(), x * 2, y * x, nd.sum, backward),  *)
(*                in any order, on small tensors                           *)
(*   SpecCells    the cells of the autograd notebook up to the head        *)
(*                gradient: x is created once, the other cells run in any  *)
(*                order, for every x and every head gradient of a bounded  *)
(*                set                                                      *)
(*   SpecFlow     the cells of the autograd notebook with the control-flow *)
(*                cell and c.backward(head_gradient), in any order         *)
(*   SpecOrder    x, attach_grad, record() and any forward pass made of    *)
(*                t * 2 and t * u on x and its results, then backward on   *)
(*                any of them: the graphs in which one record feeds two    *)
(*                later ones                                               *)
(*   SpecIter     the NDArrayIter cells of the linear regression notebook  *)
(*   SpecTrain    the training loop of the linear regression notebook,     *)
(*                statement by statement                                   *)
(*                                                                         *)
(* A tensor is a flat vector of floats; its shape is its length, and a     *)
(* scalar is a vector of length 1 (mx.nd.sum returns shape (1,)).          *)
(* Every call is a function from the interpreter state s to the state      *)
(* after the call, so that a cell is the composition of its calls.         *)
(* The entries of a tensor are float32: binary floating point numbers of   *)
(* Digits significant bits, and every operation rounds its exact result to *)
(* the nearest one, a tie going to the even mantissa.  The numbers of      *)
(* numpy and python (X, y, moving_loss, the literals) are doubles, of      *)
(* DDigits bits, and become float32 where mxnet takes them.                *)
(***************************************************************************)
EXTENDS Integers, Sequences, FiniteSets, TLC

\* ------------------------------------------------------------------ bounds
MaxTensors == 3      \* Spec: tensors created in one run (leaves and results)
MaxLeaves == 2       \* Spec: tensors created by nd.array in one run
MaxDepth == 2        \* nesting depth of recording scopes
MaxDim == 3          \* Spec: largest shape (length) of a created tensor or seed
XDim == 2            \* SpecCells: shape (length) of x
MaxElem == 2         \* SpecCells: entries of x and of the head gradient are 1..MaxElem
MaxRuns == 2         \* executions of the cells that record z, and of the cell of c.backward
NumBatches == 2      \* SpecIter: batches in one pass over the data (2500 in the notebook)
MaxOver == 3         \* SpecIter: calls of next() on an exhausted iterator
MaxScale == 2        \* SpecFlow: a is a vector of -1, 0, 1 times one of 1..MaxScale
MaxGraph == 4        \* SpecOrder: tensors of one run, x and the results computed from it

\* ------------------------------------------------------------------ program constants
batch_size == 4
num_data == NumBatches * batch_size
\* while (nd.norm(b) < 1000)
threshold == 1000
\* a = nd.random_normal(shape=3)
shape_a == 3
epochs == 2

VARIABLES
    tensors,    \* arena: <<[val, op, a, b, k]>>, a tensor's id is its index
    slot,       \* slot[t]: gradient slot of tensor t, NoGrad when not attached
    trace,      \* ids of the tensors whose Operation Record is in the Trace
    recording,  \* autograd.is_recording()
    scopes,     \* stack of the states saved by the open record() scopes
    last,       \* the last call and its outcome: [op, t, seed, err, left, over, out]
    env,        \* the notebook's names: the tensors x, y, z, head_gradient (h),
                \* a, c, w, b, data, label, loss, 0 when unbound; the numbers
                \* e, i, Unbound before the loops bind them, and moving_loss;
                \* of the control-flow cell the path it took: k doublings in
                \* the loop, m the factor of the branch; the times the cell
                \* of c.backward ran (backs); of the training cell where it
                \* stands (pc), the values range(epochs) has yielded (r) and
                \* the parameter updates made
    iter,       \* train_data: [cursor, order, stopped, fresh]
    pass        \* the last loop over train_data: [ran, batches, fresh, stopped, before]

vars == <<tensors, slot, trace, recording, scopes, last, env, iter, pass>>

\* the interpreter state as one value
S == [tensors |-> tensors, slot |-> slot, trace |-> trace,
      recording |-> recording, scopes |-> scopes, last |-> last]

Apply(s) ==
    /\ tensors' = s.tensors
    /\ slot' = s.slot
    /\ trace' = s.trace
    /\ recording' = s.recording
    /\ scopes' = s.scopes
    /\ last' = s.last

\* ------------------------------------------------------------------ numbers
\* A float is a float32: the binary number m * 2^e with at most Digits
\* significant bits; the result of an operation is the exact result rounded
\* to the nearest such number, a tie going to the even mantissa.  Every
\* number has one representation: zero is [m |-> 0, e |-> 0], a whole number
\* below 2^Digits has e = 0, a fraction has the least (an odd) mantissa.  The
\* exponent is not bounded: the values of the cells stay far inside the
\* range of a float32, where no operation overflows or leaves the normal
\* numbers.
Digits == 24
Mant == 2^Digits
\* the base of the low part of an exact intermediate result
Wide == 2 * Mant
Half == 2^(Digits \div 2)

Abs(n) == IF n < 0 THEN 0 - n ELSE n
Sign(n) == IF n < 0 THEN 0 - 1 ELSE 1
\* the bits of n, 0 < n < 2^(Digits + 2)
Bits(n) == CHOOSE k \in 1..(Digits + 2) : 2^(k - 1) <= n /\ n < 2^k
\* the zero bits n ends with, 0 < n <= 2^Digits
Tz(n) == CHOOSE k \in 0..Digits : n % 2^k = 0 /\ n % 2^(k + 1) # 0
Min2(m, n) == IF m <= n THEN m ELSE n

Zero == [m |-> 0, e |-> 0]

\* the representation of sign * n * 2^e, 0 <= n <= 2^Digits: zeros move
\* from a fraction's mantissa to the exponent, and from a whole number's
\* exponent to the mantissa
Norm(sign, n, e) ==
    IF n = 0 THEN Zero
    ELSE IF e < 0
    THEN [m |-> sign * (n \div 2^Min2(Tz(n), 0 - e)), e |-> e + Min2(Tz(n), 0 - e)]
    ELSE IF n = Mant THEN [m |-> sign * (Mant \div 2), e |-> e + 1]
    ELSE [m |-> sign * n * 2^Min2(Digits - Bits(n), e),
          e |-> e - Min2(Digits - Bits(n), e)]

\* An exact result p is p.s * (p.hi * Wide + p.lo) * 2^p.e, with p.hi < Mant
\* and p.lo < Wide; p.more: the exact value is a little above.
\* the low bits that do not fit
Drop(p) == IF p.hi > 0 THEN Bits(p.hi) + 1 ELSE IF p.lo >= Mant THEN 1 ELSE 0
Kept(p) == p.hi * 2^(Digits + 1 - Drop(p)) + (p.lo \div 2^Drop(p))
Rest(p) == p.lo % 2^Drop(p)
\* half a unit of the bits kept
Tie(p) == IF Drop(p) = 0 THEN 1 ELSE 2^(Drop(p) - 1)
RoundsUp(p) ==
    Rest(p) > Tie(p) \/ (Rest(p) = Tie(p) /\ (p.more \/ Kept(p) % 2 = 1))

\* the exact result p rounded
Fix(p) ==
    IF p.hi = 0 /\ p.lo = 0 THEN Zero
    ELSE Norm(p.s, Kept(p) + (IF RoundsUp(p) THEN 1 ELSE 0), p.e + Drop(p))

\* the float32 of the whole number n: n itself below 2^Digits, else rounded
Num(n) ==
    IF Abs(n) < Mant THEN [m |-> n, e |-> 0]
    ELSE Fix([s |-> Sign(n), hi |-> Abs(n) \div Wide, lo |-> Abs(n) % Wide,
              e |-> 0, more |-> FALSE])
One == Num(1)
Neg(x) == [m |-> 0 - x.m, e |-> x.e]

\* the mantissa brought to Digits bits, and the exponent that goes with it
Sci(x) ==
    [m |-> Abs(x.m) * 2^(Digits - Bits(Abs(x.m))),
     e |-> x.e - (Digits - Bits(Abs(x.m)))]

\* a * b by halves of the mantissas: the middle terms, the bits below Mant
\* and the bits from Mant on
MulMid(a, b) == (a \div Half) * (b % Half) + (a % Half) * (b \div Half)
MulLow(a, b) == (MulMid(a, b) % Half) * Half + (a % Half) * (b % Half)
MulHigh(a, b) ==
    (a \div Half) * (b \div Half) + (MulMid(a, b) \div Half) + (MulLow(a, b) \div Mant)
MulExact(sign, a, b, e) ==
    [s |-> sign, hi |-> MulHigh(a, b) \div 2,
     lo |-> (MulHigh(a, b) % 2) * Mant + (MulLow(a, b) % Mant), e |-> e,
     more |-> FALSE]

\* x * y
NMul(x, y) ==
    IF x.m = 0 \/ y.m = 0 THEN Zero
    ELSE Fix(MulExact(Sign(x.m) * Sign(y.m), Abs(x.m), Abs(y.m), x.e + y.e))

\* the exact sum sx * (hi * Wide + lo) + sy * ym, in units of 2^ye
AddParts(sx, hi, lo, sy, ym, ye) ==
    [s |-> sx,
     hi |-> IF sx = sy THEN hi + ((lo + ym) \div Wide)
            ELSE IF lo >= ym THEN hi ELSE hi - 1,
     lo |-> IF sx = sy THEN (lo + ym) % Wide
            ELSE IF lo >= ym THEN lo - ym ELSE lo + Wide - ym,
     e |-> ye, more |-> FALSE]

\* x + y for |x| >= |y| > 0, in the form of Sci, with the signs sx and sy
AddSci(sx, x, sy, y) ==
    IF x.e - y.e > Digits + 1
    THEN [s |-> sx, hi |-> 0, lo |-> x.m, e |-> x.e, more |-> FALSE]
    ELSE AddParts(sx, x.m \div 2^(Digits + 1 - (x.e - y.e)),
                  (x.m % 2^(Digits + 1 - (x.e - y.e))) * 2^(x.e - y.e),
                  sy, y.m, y.e)

\* x + y with a and b the forms of Sci of x and y: the larger one first
AddMixed(x, y, a, b) ==
    IF a.e > b.e \/ (a.e = b.e /\ a.m >= b.m)
    THEN AddSci(Sign(x.m), a, Sign(y.m), b)
    ELSE AddSci(Sign(y.m), b, Sign(x.m), a)

\* the exact sum of x and y, neither zero
Sum(x, y) ==
    IF x.e = y.e
    THEN [s |-> Sign(x.m + y.m), hi |-> 0, lo |-> Abs(x.m + y.m), e |-> x.e,
          more |-> FALSE]
    ELSE AddMixed(x, y, Sci(x), Sci(y))

\* x + y
NAdd(x, y) == IF x.m = 0 THEN y ELSE IF y.m = 0 THEN x ELSE Fix(Sum(x, y))

\* x - y
NSub(x, y) == NAdd(x, Neg(y))

\* x < y
NLess(x, y) == NSub(x, y).m < 0

\* five more bits of the quotient t.q of a long division by d, with what is
\* left of the remainder t.r
DivFive(t, d) == [q |-> t.q * 32 + ((t.r * 32) \div d), r |-> (t.r * 32) % d]
\* the Digits + 1 bits after the whole part of a quotient with remainder r
DivDigits(r, d) ==
    DivFive(DivFive(DivFive(DivFive(DivFive([q |-> 0, r |-> r], d), d), d), d), d)

DivFix(sign, hi, t, e) ==
    Fix([s |-> sign, hi |-> hi, lo |-> t.q, e |-> e, more |-> t.r # 0])
DivSci(sign, a, b) ==
    DivFix(sign, a.m \div b.m, DivDigits(a.m % b.m, b.m), a.e - b.e - (Digits + 1))

\* x / y, y not zero
NDiv(x, y) == IF x.m = 0 THEN Zero ELSE DivSci(Sign(x.m) * Sign(y.m), Sci(x), Sci(y))

\* the whole root of a number below Side^4 is h * Side + l with h, l < Side
Side == 2^((Digits \div 4) + 1)
\* the largest h with (h * Side)^2 <= n
RootHigh(n) ==
    CHOOSE h \in 0..(Side - 1) :
        (h * Side) * (h * Side) <= n /\ n < ((h + 1) * Side) * ((h + 1) * Side)
\* the largest r from base on with r * r <= n
RootLow(n, base) ==
    CHOOSE r \in base..(base + Side - 1) : r * r <= n /\ n < (r + 1) * (r + 1)
\* the largest r with r * r <= n
RootWhole(n) == RootLow(n, RootHigh(n) * Side)

\* the four bits that extend the root r with remainder c: the largest x with
\* (32 r + x) x <= 256 c
RootDigit(r, c) ==
    CHOOSE x \in 0..15 :
        (32 * r + x) * x <= 256 * c /\ (x = 15 \/ (32 * r + x + 1) * (x + 1) > 256 * c)

\* the root t.r, whose square is t.c below the number, extended by the bits x
RootNext(t, x) == [r |-> 16 * t.r + x, c |-> 256 * t.c - (32 * t.r + x) * x]
RootFour(t) == RootNext(t, RootDigit(t.r, t.c))
\* Digits \div 2 more bits of the root t.r
RootDigits(t) == RootFour(RootFour(RootFour(t)))

\* the root t.r rounded by what is left, t.c
RootUp(t, e) == Fix([s |-> 1, hi |-> 0, lo |-> t.r, e |-> e, more |-> t.c # 0])
\* the root of n * 2^e, e even and 2^Digits <= n < 2^(Digits + 2), from its
\* whole part r0, of Digits \div 2 + 1 bits
RootFrom(n, e, r0) ==
    RootUp(RootDigits([r |-> r0, c |-> n - r0 * r0]), (e \div 2) - (Digits \div 2))
\* the root of a.m * 2^a.e, a.e even
RootEven(a) == RootFrom(a.m, a.e, RootWhole(a.m))
\* a number in the form of Sci with the exponent made even and the mantissa
\* of Digits + 1 or Digits + 2 bits
EvenExp(a) ==
    IF a.e % 2 = 1 THEN [m |-> 2 * a.m, e |-> a.e - 1] ELSE [m |-> 4 * a.m, e |-> a.e - 2]

\* the square root of x, x not negative
NSqrt(x) == IF x.m = 0 THEN Zero ELSE RootEven(EvenExp(Sci(x)))

\* ------------------------------------------------------------------ doubles
\* A python float and a numpy.float64 are doubles: s * m * 2^e with s the
\* sign, 1 or -1, and m the mantissa, of DDigits bits, the first of them set.
\* The mantissa is held as its Limbs limbs of LimbBits bits, the least one
\* first; zero is the mantissa of zeros with e = 0.  The result of an
\* operation is the exact result rounded to the nearest double, a tie going
\* to the even mantissa.
DDigits == 53
Limbs == 4
LimbBits == (DDigits + Limbs - 1) \div Limbs
Limb == 2^LimbBits

\* A natural number of any size is the sequence of its limbs, the least one
\* first.
\* limb i of x, zero past its end
At(x, i) == IF i >= 1 /\ i <= Len(x) THEN x[i] ELSE 0
Longer(x, y) == IF Len(x) >= Len(y) THEN Len(x) ELSE Len(y)

RECURSIVE Carried(_, _, _)
\* the limbs from i on of the number whose limb j is worth cols[j], with c
\* carried into limb i
Carried(cols, i, c) ==
    IF i > Len(cols)
    THEN IF c = 0 THEN <<>> ELSE <<c % Limb>> \o Carried(cols, i + 1, c \div Limb)
    ELSE <<(cols[i] + c) % Limb>> \o Carried(cols, i + 1, (cols[i] + c) \div Limb)

\* x + y, and x - y for x >= y
WAdd(x, y) == Carried([i \in 1..Longer(x, y) |-> At(x, i) + At(y, i)], 1, 0)
WSub(x, y) == Carried([i \in 1..Longer(x, y) |-> At(x, i) - At(y, i)], 1, 0)
\* x * y for mantissas: limb k of the product is worth the products of the
\* limbs whose places add up to k
WMul(x, y) ==
    Carried([k \in 1..(2 * Limbs - 1) |->
                x[1] * At(y, k) + x[2] * At(y, k - 1) + x[3] * At(y, k - 2)
                    + x[4] * At(y, k - 3)], 1, 0)
\* x < y
WLess(x, y) ==
    \E i \in 1..Longer(x, y) :
        At(x, i) < At(y, i) /\ \A j \in (i + 1)..Longer(x, y) : At(x, j) = At(y, j)

\* x * 2^k and x \div 2^k
WShl(x, k) ==
    [i \in 1..(Len(x) + (k \div LimbBits) + 1) |->
        IF i <= k \div LimbBits THEN 0
        ELSE ((At(x, i - (k \div LimbBits)) * 2^(k % LimbBits)) % Limb)
              + (At(x, i - (k \div LimbBits) - 1) \div 2^(LimbBits - (k % LimbBits)))]
WShr(x, k) ==
    [i \in 1..Len(x) |->
        (At(x, i + (k \div LimbBits)) \div 2^(k % LimbBits))
          + (At(x, i + (k \div LimbBits) + 1) % 2^(k % LimbBits))
                * 2^(LimbBits - (k % LimbBits))]
\* bit j of x, bit 0 the least, and: the bits of x below bit j are zeros
WBit(x, j) == (At(x, (j \div LimbBits) + 1) \div 2^(j % LimbBits)) % 2
WLowZero(x, j) ==
    /\ \A i \in 1..Len(x) : i <= j \div LimbBits => x[i] = 0
    /\ At(x, (j \div LimbBits) + 1) % 2^(j % LimbBits) = 0
\* the bits of x, none for zero
WTop(x) == CHOOSE i \in 1..Len(x) : x[i] # 0 /\ \A j \in (i + 1)..Len(x) : x[j] = 0
WBits(x) ==
    IF \A i \in 1..Len(x) : x[i] = 0 THEN 0
    ELSE (WTop(x) - 1) * LimbBits + Bits(x[WTop(x)])
\* the limbs of a mantissa
Mantissa(x) == [i \in 1..Limbs |-> At(x, i)]

DZero == [s |-> 1, m |-> [i \in 1..Limbs |-> 0], e |-> 0]
IsDZero(x) == x.m = DZero.m

\* the first DDigits bits of n rounded by the d bits after them
DRounded(n, d) ==
    IF WBit(n, d - 1) = 1 /\ (~WLowZero(n, d - 1) \/ WBit(n, d) = 1)
    THEN WAdd(WShr(n, d), <<1>>)
    ELSE WShr(n, d)
\* the double of sign s with the mantissa r, of DDigits bits or 2^DDigits
DCarry(s, r, e) ==
    IF WBits(r) > DDigits THEN [s |-> s, m |-> Mantissa(WShr(r, 1)), e |-> e + 1]
    ELSE [s |-> s, m |-> Mantissa(r), e |-> e]
\* the exact result s * n * 2^e rounded
DFix(s, n, e) ==
    IF WBits(n) = 0 THEN DZero
    ELSE IF WBits(n) <= DDigits
    THEN [s |-> s, m |-> Mantissa(WShl(n, DDigits - WBits(n))),
          e |-> e - (DDigits - WBits(n))]
    ELSE DCarry(s, DRounded(n, WBits(n) - DDigits), e + (WBits(n) - DDigits))

\* the double of the whole number n, |n| < Limb^2, and of the float32 x
DNum(n) == DFix(Sign(n), <<Abs(n) % Limb, Abs(n) \div Limb>>, 0)
DOf(x) == DFix(Sign(x.m), <<Abs(x.m) % Limb, Abs(x.m) \div Limb>>, x.e)
DNeg(x) == IF IsDZero(x) THEN x ELSE [x EXCEPT !.s = 0 - x.s]

\* x * y
DMul(x, y) ==
    IF IsDZero(x) \/ IsDZero(y) THEN DZero
    ELSE DFix(x.s * y.s, WMul(x.m, y.m), x.e + y.e)

\* x + y for |x| >= |y| > 0: exact in units of 2^y.e, unless y is below the
\* bits that round x
DAddTo(x, y) ==
    IF x.e - y.e > DDigits + 2 THEN x
    ELSE DFix(x.s, IF x.s = y.s THEN WAdd(WShl(x.m, x.e - y.e), y.m)
                   ELSE WSub(WShl(x.m, x.e - y.e), y.m), y.e)
\* x + y and x - y
DAdd(x, y) ==
    IF IsDZero(x) THEN y
    ELSE IF IsDZero(y) THEN x
    ELSE IF x.e > y.e \/ (x.e = y.e /\ ~WLess(x.m, y.m)) THEN DAddTo(x, y)
    ELSE DAddTo(y, x)
DSub(x, y) == DAdd(x, DNeg(y))

RECURSIVE ShortDiv(_, _, _, _)
\* limbs 1 to i of x, with r carried in from the limbs above, divided by k,
\* 0 < k < Limb: the limbs of the quotient and the remainder
ShortDiv(x, k, i, r) ==
    IF i = 0 THEN [q |-> <<>>, r |-> r]
    ELSE [q |-> Append(ShortDiv(x, k, i - 1, (r * Limb + x[i]) % k).q,
                       (r * Limb + x[i]) \div k),
          r |-> ShortDiv(x, k, i - 1, (r * Limb + x[i]) % k).r]
\* the quotient t.q made odd when a remainder is left, so that it rounds as
\* the exact quotient does
Sticky(t) == IF t.r # 0 /\ t.q[1] % 2 = 0 THEN [t.q EXCEPT ![1] = @ + 1] ELSE t.q
\* x / k for a whole number k, 0 < k < Limb, from the quotient of the
\* mantissa with Limbs + 1 limbs of zeros after it
DDiv(x, k) ==
    IF IsDZero(x) THEN DZero
    ELSE DFix(x.s, Sticky(ShortDiv(WShl(x.m, (Limbs + 1) * LimbBits), k,
                                   2 * Limbs + 2, 0)),
              x.e - (Limbs + 1) * LimbBits)
\* the double a decimal literal denotes: n / 10^d
Literal(n, d) == DDiv(DNum(n), 10^d)

\* the float32 of the double x, as numpy and mxnet convert it: its first
\* Digits + 1 bits rounded by the rest
Single(x) ==
    IF IsDZero(x) THEN Zero
    ELSE Fix([s |-> x.s, hi |-> 0, lo |-> x.m[4] * Limb + x.m[3],
              e |-> x.e + 2 * LimbBits, more |-> x.m[1] # 0 \/ x.m[2] # 0])
\* ------------------------------------------------------------------ values
NoGrad == <<>>
NoSeed == <<>>

Vectors(n) == [1..n -> {Num(j) : j \in 1..MaxElem}]
\* one vector of each shape
Ramp(n) == [i \in 1..n |-> Num(1 + (i % 2))]
\* the decimal fractions of the notebook's head gradient, .1 and .01 and so
\* on: the float32 of the doubles the literals denote
Tenths(n) == [i \in 1..n |-> Single(Literal(1, i))]
\* a vector of whole numbers
NumV(v) == [i \in 1..Len(v) |-> Num(v[i])]

\* the sequence of the entries of f, each computed once
Vec(f) == f \o <<>>

Zeros(n) == [i \in 1..n |-> Zero]
Ones(n) == [i \in 1..n |-> One]
Max2(m, n) == IF m >= n THEN m ELSE n

RECURSIVE SumTo(_, _)
SumTo(v, n) == IF n = 0 THEN Zero ELSE NAdd(SumTo(v, n - 1), v[n])

\* the sum of the squares of the entries
SumSq(v) == SumTo(Vec([i \in 1..Len(v) |-> NMul(v[i], v[i])]), Len(v))

\* v * k for a python number k
ScaleV(v, k) == Vec([i \in 1..Len(v) |-> NMul(v[i], k)])
\* index into an operand that broadcasts when its length is 1
BIdx(v, i) == IF Len(v) = 1 THEN 1 ELSE i
\* elementwise product with broadcasting
BMul(u, v) ==
    Vec([i \in 1..Max2(Len(u), Len(v)) |-> NMul(u[BIdx(u, i)], v[BIdx(v, i)])])
Compatible(u, v) == Len(u) = Len(v) \/ Len(u) = 1 \/ Len(v) = 1
VAdd(u, v) == Vec([i \in 1..Len(u) |-> NAdd(u[i], v[i])])
\* gradient of a broadcast operand: summed back to the operand's shape
ReduceTo(g, n) == IF Len(g) = n THEN g ELSE <<SumTo(g, Len(g))>>

\* left: the recording scopes the call left
\* over: the tensors whose slot held an earlier gradient when the call wrote it
\* out: what x.grad returned
Call(op, t, seed, err) ==
    [op |-> op, t |-> t, seed |-> seed, err |-> err, left |-> 0, over |-> {},
     out |-> <<>>]
Node(val, op, a, b, k) == [val |-> val, op |-> op, a |-> a, b |-> b, k |-> k]

IdsOf(s) == 1..Len(s.tensors)
Val(s, t) == s.tensors[t].val
Shape(s, t) == Len(s.tensors[t].val)
InputsOf(s, t) ==
    IF s.tensors[t].op \in {"mul", "dot", "add", "sub"}
    THEN {s.tensors[t].a, s.tensors[t].b}
    ELSE IF s.tensors[t].op = "leaf" THEN {} ELSE {s.tensors[t].a}

\* ------------------------------------------------------------------ recording scope
\* an exit that leaves the recording state as it is
RestoreNothing(rec, prev) == rec

\* an exit that always turns recording off
RestoreOff(rec, prev) == FALSE

\* __exit__ of one record() scope: put back the state saved on entry
RestoreOne(rec, prev) == IF prev # TRUE THEN prev ELSE rec

RECURSIVE Unwind(_, _, _)
\* leave the n innermost scopes, innermost first
Unwind(rec, stack, n) ==
    IF n = 0 THEN [rec |-> rec, stack |-> stack]
    ELSE Unwind(RestoreOne(rec, stack[Len(stack)]), SubSeq(stack, 1, Len(stack) - 1), n - 1)

\* a call raises err: the exception leaves the n scopes between the call and
\* its handler, and nothing else changes
RaiseF(s, op, t, err, n) ==
    [s EXCEPT !.recording = Unwind(s.recording, s.scopes, n).rec,
              !.scopes = Unwind(s.recording, s.scopes, n).stack,
              !.last = [Call(op, t, NoSeed, err) EXCEPT !.left = n]]

\* with ag.record():
EnterF(s) ==
    [s EXCEPT !.scopes = Append(s.scopes, s.recording),
              !.recording = TRUE,
              !.last = Call("enter", 0, NoSeed, "none")]

\* an exit that closes the scopes and leaves recording as it is
ExitStays(s, n) ==
    [s EXCEPT !.scopes = Unwind(s.recording, s.scopes, n).stack,
              !.last = [Call("exit", 0, NoSeed, "none") EXCEPT !.left = n]]

\* the end of the with block (n = 1), or a return out of n blocks
ExitF(s, n) ==
    [s EXCEPT !.recording = Unwind(s.recording, s.scopes, n).rec,
              !.scopes = Unwind(s.recording, s.scopes, n).stack,
              !.last = [Call("exit", 0, NoSeed, "none") EXCEPT !.left = n]]

\* ------------------------------------------------------------------ tensors
\* x = nd.array(v)
ArrayF(s, v) ==
    [s EXCEPT !.tensors = Append(s.tensors, Node(v, "leaf", 0, 0, 0)),
              !.slot = Append(s.slot, NoGrad),
              !.last = Call("array", Len(s.tensors) + 1, NoSeed, "none")]

\* the gradient a slot holds, if it holds one
Held(s, t) == IF s.slot[t] \in {NoGrad, Zeros(Shape(s, t))} THEN {} ELSE {t}

\* an attach_grad that allocates a zero slot whatever the tensor has
AttachZeroes(s, t) ==
    [s EXCEPT !.slot[t] = Zeros(Shape(s, t)),
              !.last = [Call("attach_grad", t, NoSeed, "none") EXCEPT !.over = Held(s, t)]]

\* x.attach_grad(), on any tensor: a zero slot of x's shape for a tensor that
\* has none, and nothing for a tensor that has one; nothing else changes.
\* The notebooks call it once on each fresh tensor and the library is not
\* part of the repository: what it does is the specification's contract.
AttachF(s, t) ==
    [s EXCEPT !.slot[t] = IF s.slot[t] = NoGrad THEN Zeros(Shape(s, t)) ELSE s.slot[t],
              !.last = [Call("attach_grad", t, NoSeed, "none") EXCEPT !.over = Held(s, t)]]

\* x.grad: what the slot holds; NotDifferentiable for a tensor that has no
\* slot (the specification's contract, the notebooks read attached tensors)
GradF(s, t) ==
    IF s.slot[t] = NoGrad
    THEN [s EXCEPT !.last = Call("grad", t, NoSeed, "NotDifferentiable")]
    ELSE [s EXCEPT !.last = [Call("grad", t, NoSeed, "none") EXCEPT !.out = s.slot[t]]]

\* ------------------------------------------------------------------ primitive operations
\* an operation that records whatever the recording state is
RecordAlways(s, id) == s.trace \cup {id}

\* the Trace after an operation produced tensor id
Record(s, id) == IF s.recording THEN s.trace \cup {id} ELSE s.trace

ProduceF(s, node) ==
    [s EXCEPT !.tensors = Append(s.tensors, node),
              !.slot = Append(s.slot, NoGrad),
              !.trace = Record(s, Len(s.tensors) + 1),
              !.last = Call(node.op, Len(s.tensors) + 1, NoSeed, "none")]

\* y = x * 2
ScaleF(s, a, k) == ProduceF(s, Node(ScaleV(Val(s, a), k), "scale", a, 0, k))

\* z = y * x; shapes that do not broadcast raise and nothing is produced
MulF(s, a, b, n) ==
    IF Compatible(Val(s, a), Val(s, b))
    THEN ProduceF(s, Node(BMul(Val(s, a), Val(s, b)), "mul", a, b, 0))
    ELSE RaiseF(s, "mul", 0, "ShapeMismatch", n)

\* mx.nd.sum(z)
SumF(s, a) == ProduceF(s, Node(<<SumTo(Val(s, a), Shape(s, a))>>, "sum", a, 0, 0))

\* nd.norm(b): the 2-norm, a tensor of shape (1,)
NormF(s, a) == ProduceF(s, Node(<<NSqrt(SumSq(Val(s, a)))>>, "norm", a, 0, 0))

Truth(p) == IF p THEN One ELSE Zero
\* t < k and t > k for a python number k: a tensor of 0s and 1s
LessF(s, a, k) ==
    ProduceF(s, Node(Vec([i \in 1..Shape(s, a) |-> Truth(NLess(Val(s, a)[i], k))]),
                     "lt", a, 0, k))
GreaterF(s, a, k) ==
    ProduceF(s, Node(Vec([i \in 1..Shape(s, a) |-> Truth(NLess(k, Val(s, a)[i]))]),
                     "gt", a, 0, k))

\* t.asscalar() used as a condition
AsScalar(s, t) == Val(s, t)[1] # Zero

\* nd.dot(X, w): X holds Len(X) / Len(w) rows of Len(w) entries
DotV(X, w) ==
    Vec([i \in 1..(Len(X) \div Len(w)) |->
            SumTo(Vec([j \in 1..Len(w) |-> NMul(X[(i - 1) * Len(w) + j], w[j])]), Len(w))])
DotF(s, a, b) == ProduceF(s, Node(DotV(Val(s, a), Val(s, b)), "dot", a, b, 0))

\* a + b and a - b, with broadcasting
BAdd(u, v) ==
    Vec([i \in 1..Max2(Len(u), Len(v)) |-> NAdd(u[BIdx(u, i)], v[BIdx(v, i)])])
BSub(u, v) ==
    Vec([i \in 1..Max2(Len(u), Len(v)) |-> NSub(u[BIdx(u, i)], v[BIdx(v, i)])])
AddF(s, a, b) == ProduceF(s, Node(BAdd(Val(s, a), Val(s, b)), "add", a, b, 0))
SubF(s, a, b) == ProduceF(s, Node(BSub(Val(s, a), Val(s, b)), "sub", a, b, 0))

\* nd.mean(a): a tensor of shape (1,)
MeanF(s, a) ==
    ProduceF(s, Node(<<NDiv(SumTo(Val(s, a), Shape(s, a)), Num(Shape(s, a)))>>,
                     "mean", a, 0, 0))

\* a.reshape((-1, 1)): a new tensor of the same entries
ReshapeF(s, a) == ProduceF(s, Node(Val(s, a), "reshape", a, 0, 0))

\* ------------------------------------------------------------------ backward
\* the backward rule of the record that produced t: <<input, gradient>> pairs
\* y = x * k: dx = g * k
ScaleRule(s, r, g) == << <<r.a, ScaleV(g, r.k)>> >>

\* z = a * b: da = g * b, db = g * a
MulRule(s, r, g) ==
    << <<r.a, ReduceTo(BMul(g, Val(s, r.b)), Shape(s, r.a))>>,
       <<r.b, ReduceTo(BMul(g, Val(s, r.a)), Shape(s, r.b))>> >>

\* a sum whose gradient reaches the first entry only
SumRuleFirst(s, r, g) ==
    << <<r.a, Vec([i \in 1..Shape(s, r.a) |-> IF i = 1 THEN g[1] ELSE Zero])>> >>

\* s = sum(a): the scalar gradient goes to every entry of a
SumRule(s, r, g) == << <<r.a, Vec([i \in 1..Shape(s, r.a) |-> g[1]])>> >>

\* n = norm(a): da = g * a / n
NormRuleBy(s, r, g, n) ==
    << <<r.a, Vec([i \in 1..Shape(s, r.a) |->
                     IF n = Zero THEN Zero ELSE NDiv(NMul(g[1], Val(s, r.a)[i]), n)])>> >>
NormRule(s, r, g) == NormRuleBy(s, r, g, r.val[1])

\* out = dot(X, w): dX = g w^T, dw = X^T g
DotRuleBy(s, r, g, n) ==
    << <<r.a, Vec([p \in 1..Shape(s, r.a) |->
                     NMul(g[((p - 1) \div n) + 1], Val(s, r.b)[((p - 1) % n) + 1])])>>,
       <<r.b, Vec([j \in 1..n |->
                     SumTo(Vec([i \in 1..Len(g) |->
                                  NMul(g[i], Val(s, r.a)[(i - 1) * n + j])]), Len(g))])>> >>
DotRule(s, r, g) == DotRuleBy(s, r, g, Shape(s, r.b))

\* out = a + b: da = g, db = g, summed over the broadcast
AddRule(s, r, g) ==
    << <<r.a, ReduceTo(g, Shape(s, r.a))>>, <<r.b, ReduceTo(g, Shape(s, r.b))>> >>

\* out = a - b: da = g, db = -g
SubRule(s, r, g) ==
    << <<r.a, ReduceTo(g, Shape(s, r.a))>>,
       <<r.b, ReduceTo(Vec([i \in 1..Len(g) |-> Neg(g[i])]), Shape(s, r.b))>> >>

\* out = mean(a): da = g / n for each of the n entries of a
MeanRule(s, r, g) ==
    << <<r.a, Vec([i \in 1..Shape(s, r.a) |-> NDiv(g[1], Num(Shape(s, r.a)))])>> >>

\* out = a.reshape(...): da = g
ReshapeRule(s, r, g) == << <<r.a, g>> >>

\* a comparison: its gradient is zero
CompareRule(s, r, g) == << <<r.a, Zeros(Shape(s, r.a))>> >>

Contribs(s, t, g) ==
    LET r == s.tensors[t] IN
    IF r.op = "scale" THEN ScaleRule(s, r, g)
    ELSE IF r.op = "mul" THEN MulRule(s, r, g)
    ELSE IF r.op = "sum" THEN SumRule(s, r, g)
    ELSE IF r.op = "norm" THEN NormRule(s, r, g)
    ELSE IF r.op \in {"lt", "gt"} THEN CompareRule(s, r, g)
    ELSE IF r.op = "dot" THEN DotRule(s, r, g)
    ELSE IF r.op = "add" THEN AddRule(s, r, g)
    ELSE IF r.op = "sub" THEN SubRule(s, r, g)
    ELSE IF r.op = "mean" THEN MeanRule(s, r, g)
    ELSE IF r.op = "reshape" THEN ReshapeRule(s, r, g)
    ELSE << >>

\* a buffer that keeps only the latest contribution
AccumulateLatest(old, g) == g

\* what a tensor's incoming-gradient buffer holds after one more contribution
Accumulate(old, g) == VAdd(old, g)

RECURSIVE AddAll(_, _, _)
\* add the first j contributions into the incoming-gradient buffers
AddAll(bp, cs, j) ==
    IF j = 0 THEN bp
    ELSE LET p == AddAll(bp, cs, j - 1)
             i == cs[j][1]
         IN  [p EXCEPT !.g[i] = Accumulate(p.g[i], cs[j][2]),
                       !.reached = p.reached \cup {i}]

\* record i is processed: it joins the order of the pass
Visit(s, bp, i) == [bp EXCEPT !.order = Append(@, i)]

\* record i is processed and its contributions cs are added
Process(s, bp, i, cs) == AddAll(Visit(s, bp, i), cs, Len(cs))

\* record j is processed: its rule is applied to the gradient that reached it
Step(s, bp, j) == Process(s, bp, j, Contribs(s, j, bp.g[j]))

\* the latest of the tensors js, 0 when there is none
Latest(js) == IF js = {} THEN 0 ELSE CHOOSE j \in js : \A k \in js : k <= j

RECURSIVE PropagateAll(_, _, _)
\* a pass that goes through every record made before the result, reached from
\* the result or not
PropagateAll(s, bp, i) ==
    IF bp.reached = {} \/ Latest(s.trace \cap (1..i)) = 0 THEN bp
    ELSE PropagateAll(s, Step(s, bp, Latest(s.trace \cap (1..i))),
                      Latest(s.trace \cap (1..i)) - 1)

\* the records a pass has reached and not processed
Waiting(s, bp) == (bp.reached \cap s.trace) \ {bp.order[p] : p \in 1..Len(bp.order)}
Earliest(js) == CHOOSE j \in js : \A k \in js : j <= k

RECURSIVE PropagateEarliest(_, _, _)
\* a pass that processes, of the records it has reached, the earliest first
PropagateEarliest(s, bp, i) ==
    IF Waiting(s, bp) = {} THEN bp
    ELSE PropagateEarliest(s, Step(s, bp, Earliest(Waiting(s, bp))), i)

\* the records among the tensors up to i that the pass has reached
Pending(s, bp, i) == bp.reached \cap s.trace \cap (1..i)

RECURSIVE Propagate(_, _, _)
\* process the reached records among the tensors up to i, the latest first; a
\* tensor's inputs were created before it, so descending ids are a reverse
\* topological order; order lists the records in the order they are processed
Propagate(s, bp, i) ==
    IF Pending(s, bp, i) = {} THEN bp
    ELSE Propagate(s, Step(s, bp, Latest(Pending(s, bp, i))),
                   Latest(Pending(s, bp, i)) - 1)

\* a head gradient that ignores the one supplied
HeadGradOnes(n, seed) == Ones(n)

\* the head gradient: the one supplied, or ones shaped like the result
HeadGrad(n, seed) == IF seed = NoSeed THEN Ones(n) ELSE seed

\* the incoming gradient of every tensor after a backward pass from t
BackProp(s, t, seed) ==
    Propagate(s, [g |-> [i \in IdsOf(s) |-> IF i = t THEN HeadGrad(Shape(s, t), seed)
                                           ELSE Zeros(Shape(s, i))],
                  reached |-> {t}, order |-> <<>>], t)

\* a backward pass that adds to what the slot holds
WriteSlotAdd(old, g) == VAdd(old, g)

\* a backward pass that leaves a slot that already holds a gradient
WriteSlotStale(old, g) == IF old = Zeros(Len(old)) THEN g ELSE old

\* what a backward pass stores in a slot (grad_req is 'write')
WriteSlot(old, g) == g

\* a backward pass that writes to every leaf it reaches
WrittenAll(s, bp) == {i \in bp.reached : i \notin s.trace}

\* a backward pass that writes every slot there is
WrittenEvery(s, bp) == {i \in IdsOf(s) : s.slot[i] # NoGrad}

\* the tensors whose slot a backward pass with result bp writes
Written(s, bp) == {i \in bp.reached : i \notin s.trace /\ s.slot[i] # NoGrad}

\* a backward pass that keeps the graph
ConsumedNone(s, bp) == {}

\* the records a backward pass with result bp consumes
Consumed(s, bp) == bp.reached \cap s.trace

BackwardError(s, t, seed) ==
    IF t \notin s.trace THEN "NoGraph"
    ELSE IF seed # NoSeed /\ Len(seed) # Shape(s, t) THEN "SeedShapeMismatch"
    ELSE "none"

\* the state after a pass with result bp: the slots written, the records consumed
BackwardDoneF(s, t, seed, bp) ==
    [s EXCEPT !.slot = [i \in IdsOf(s) |->
                           IF i \in Written(s, bp)
                           THEN WriteSlot(s.slot[i], bp.g[i]) ELSE s.slot[i]],
              !.trace = s.trace \ Consumed(s, bp),
              !.last = [Call("backward", t, seed, "none") EXCEPT
                           !.over = {i \in Written(s, bp) : s.slot[i] # Zeros(Shape(s, i))}]]

\* every slot there is, zeroed
Cleared(s) ==
    [s EXCEPT !.slot = [i \in IdsOf(s) |->
                           IF s.slot[i] = NoGrad THEN NoGrad ELSE Zeros(Shape(s, i))]]

\* a backward that has cleared the slots when it fails
BackwardFailsCleared(s, t, seed, n) ==
    RaiseF(Cleared(s), "backward", t, BackwardError(s, t, seed), n)

\* a backward that fails: the exception, and no slot touched
BackwardFails(s, t, seed, n) ==
    RaiseF(s, "backward", t, BackwardError(s, t, seed), n)

\* z.backward(seed)
BackwardF(s, t, seed, n) ==
    IF BackwardError(s, t, seed) # "none"
    THEN BackwardFails(s, t, seed, n)
    ELSE BackwardDoneF(s, t, seed, BackProp(s, t, seed))

\* ------------------------------------------------------------------ NDArrayIter
\* the orders a shuffle of the examples 1..num_data may produce
Rotation(r) == [i \in 1..num_data |-> ((i + r - 1) % num_data) + 1]
Reversed(o) == [i \in 1..num_data |-> o[num_data + 1 - i]]
Shuffles == {Rotation(r) : r \in 0..(num_data - 1)}
                \cup {Reversed(Rotation(r)) : r \in 0..(num_data - 1)}

\* stopped: next() has raised StopIteration since the last reset
\* fresh: next() has not been called since the iterator was made or reset
\* mx.io.NDArrayIter(X, y, batch_size, shuffle=True)
NewIter(o) == [cursor |-> 0 - batch_size, order |-> o, stopped |-> FALSE, fresh |-> TRUE]

\* before: the cursor when the cell of the loop started
NoPass == [ran |-> FALSE, batches |-> <<>>, fresh |-> FALSE, stopped |-> FALSE,
           before |-> 0 - batch_size]

\* a reset that puts the cursor on the first batch
ResetToFirst(it, o) ==
    [it EXCEPT !.cursor = 0, !.order = o, !.stopped = FALSE, !.fresh = TRUE]

\* a reset that leaves the cursor where it is
ResetKeepsCursor(it, o) == [it EXCEPT !.order = o, !.stopped = FALSE, !.fresh = TRUE]

\* train_data.reset(): reshuffle, cursor before the first batch
ResetF(it, o) ==
    [it EXCEPT !.cursor = 0 - batch_size, !.order = o, !.stopped = FALSE, !.fresh = TRUE]

\* iter_next(): advance the cursor and say whether a batch starts there
HasBatch(it) == it.cursor + batch_size < num_data

\* the batch at the cursor: the examples order[cursor + 1 .. cursor + batch_size]
BatchAt(it) == [j \in 1..batch_size |-> it.order[it.cursor + j]]

\* train_data.next(): the iterator after the call
NextF(it) ==
    [it EXCEPT !.cursor = it.cursor + batch_size,
               !.fresh = FALSE,
               !.stopped = it.stopped \/ ~HasBatch(it)]

RECURSIVE PassF(_, _, _)
\* for i, batch in enumerate(train_data): call next() until StopIteration;
\* the batches got and the iterator left behind
PassF(it, got, fuel) ==
    IF HasBatch(it) /\ fuel > 0
    THEN PassF(NextF(it), Append(got, BatchAt(NextF(it))), fuel - 1)
    ELSE [iter |-> NextF(it), batches |-> got]

PassOf(it, before) ==
    LET r == PassF(it, <<>>, NumBatches) IN
    [ran |-> TRUE, batches |-> r.batches, fresh |-> it.fresh, stopped |-> it.stopped,
     before |-> before]

CanCallNext(it) == it.cursor < num_data + (MaxOver - 1) * batch_size

AutogradVars == <<tensors, slot, trace, recording, scopes, last, env>>

\* batch = train_data.next()
CellNext ==
    /\ CanCallNext(iter)
    /\ iter' = NextF(iter)
    /\ UNCHANGED <<pass, AutogradVars>>

\* train_data.reset()
IterReset(o) ==
    /\ iter' = ResetF(iter, o)
    /\ UNCHANGED <<pass, AutogradVars>>

\* for i, batch in enumerate(train_data): the i the statement leaves bound,
\* the index of the last batch, or i as it was when there was no batch
LoopIndex(i, got) == IF Len(got) = 0 THEN i ELSE Len(got) - 1

\* counter = 0; train_data.reset(); for i, batch in enumerate(train_data): counter += 1
CellCountReset(o) ==
    /\ iter' = PassF(ResetF(iter, o), <<>>, NumBatches).iter
    /\ pass' = PassOf(ResetF(iter, o), iter.cursor)
    /\ env' = [env EXCEPT !.i = LoopIndex(env.i, pass'.batches)]
    /\ UNCHANGED <<tensors, slot, trace, recording, scopes, last>>

\* counter = 0; for i, batch in enumerate(train_data): counter += 1
CellCount ==
    /\ CanCallNext(iter)
    /\ iter' = PassF(iter, <<>>, NumBatches).iter
    /\ pass' = PassOf(iter, iter.cursor)
    /\ env' = [env EXCEPT !.i = LoopIndex(env.i, pass'.batches)]
    /\ UNCHANGED <<tensors, slot, trace, recording, scopes, last>>

\* ------------------------------------------------------------------ Spec: the calls
ApiVals == {Ramp(n) : n \in 2..MaxDim}
ApiSeeds == {NoSeed} \cup {ScaleV(Ramp(n), Num(3)) : n \in 1..MaxDim}
ScaleFactors == {Num(2)}
Leaves(s) == {t \in IdsOf(s) : s.tensors[t].op = "leaf"}

EnterRecord ==
    /\ Len(scopes) < MaxDepth
    /\ Apply(EnterF(S))
    /\ UNCHANGED <<env, iter, pass>>

ExitRecord(n) ==
    /\ n \in 1..Len(scopes)
    /\ Apply(ExitF(S, n))
    /\ UNCHANGED <<env, iter, pass>>

NewTensor(v) ==
    /\ Len(tensors) < MaxTensors
    /\ Cardinality(Leaves(S)) < MaxLeaves
    /\ Apply(ArrayF(S, v))
    /\ UNCHANGED <<env, iter, pass>>

AttachGrad(t) ==
    /\ t \in IdsOf(S)
    /\ Apply(AttachF(S, t))
    /\ UNCHANGED <<env, iter, pass>>

Scale(a, k) ==
    /\ Len(tensors) < MaxTensors
    /\ Apply(ScaleF(S, a, k))
    /\ UNCHANGED <<env, iter, pass>>

Mul(a, b, n) ==
    /\ Len(tensors) < MaxTensors
    /\ n \in 0..Len(scopes)
    /\ Compatible(Val(S, a), Val(S, b)) => n = 0
    /\ Apply(MulF(S, a, b, n))
    /\ UNCHANGED <<env, iter, pass>>

SumOp(a) ==
    /\ Len(tensors) < MaxTensors
    /\ Apply(SumF(S, a))
    /\ UNCHANGED <<env, iter, pass>>

Backward(t, seed, n) ==
    /\ n \in 0..Len(scopes)
    /\ BackwardError(S, t, seed) = "none" => n = 0
    /\ BackwardError(S, t, seed) = "NoGraph" => seed = NoSeed
    /\ Apply(BackwardF(S, t, seed, n))
    /\ UNCHANGED <<env, iter, pass>>

\* the value of a name of the loops that no statement has bound yet
Unbound == 0 - 1

\* a fresh kernel
InitAutograd ==
    /\ tensors = <<>>
    /\ slot = <<>>
    /\ trace = {}
    /\ recording = FALSE
    /\ scopes = <<>>
    /\ last = Call("init", 0, NoSeed, "none")
    /\ env = [x |-> 0, y |-> 0, z |-> 0, h |-> 0, a |-> 0, c |-> 0, k |-> 0, m |-> 0,
              backs |-> 0, w |-> 0, b |-> 0, e |-> Unbound, i |-> Unbound, r |-> 0,
              data |-> 0, label |-> 0, loss |-> 0, moving_loss |-> DZero,
              pc |-> "cells", updates |-> 0]
    /\ pass = NoPass

Init ==
    /\ InitAutograd
    /\ iter = NewIter(Rotation(0))

\* train_data = mx.io.NDArrayIter(X, y, batch_size, shuffle=True)
InitIter ==
    /\ InitAutograd
    /\ iter \in {NewIter(o) : o \in Shuffles}

Next ==
    \/ EnterRecord
    \/ \E n \in 1..MaxDepth : ExitRecord(n)
    \/ \E v \in ApiVals : NewTensor(v)
    \/ \E t \in IdsOf(S) : AttachGrad(t)
    \/ \E a \in IdsOf(S), k \in ScaleFactors : Scale(a, k)
    \/ \E a \in IdsOf(S), b \in IdsOf(S), n \in 0..MaxDepth : Mul(a, b, n)
    \/ \E a \in IdsOf(S) : SumOp(a)
    \/ \E t \in IdsOf(S), seed \in ApiSeeds, n \in 0..MaxDepth : Backward(t, seed, n)

Spec == Init /\ [][Next]_vars

\* ------------------------------------------------------------------ SpecCells: the notebook
XVals == Vectors(XDim)
\* head gradients of x's shape, whole and fractional, and one of another shape
HeadVals == Vectors(XDim) \cup {Tenths(XDim), Ones(XDim + 1)}
Runs(s) == Cardinality({t \in IdsOf(s) : s.tensors[t].op = "mul"})

\* with ag.record(): y = x * 2; z = y * x
\* the end of the with block, unless an exception left it
EndRecord(s) == IF s.last.err # "none" THEN s ELSE ExitF(s, 1)
\* z = y * x, y the tensor made last
RecordMul(s, x) == EndRecord(MulF(s, Len(s.tensors), x, Len(s.scopes)))
RecordF(s, x) == RecordMul(ScaleF(EnterF(s), x, Num(2)), x)

\* t.backward(head_gradient), head_gradient the tensor made last
BackwardHead(s, t) == BackwardF(s, t, Val(s, Len(s.tensors)), 0)
\* print(x.grad)
HeadPrint(s, x) == IF s.last.err # "none" THEN s ELSE GradF(s, x)
\* head_gradient = nd.array(h); z.backward(head_gradient), z the tensor made last
HeadBack(s, x, h) ==
    IF s.last.err # "none" THEN s
    ELSE HeadPrint(BackwardHead(ArrayF(s, h), Len(s.tensors)), x)
\* with ag.record(): y = x * 2; z = y * x
\* head_gradient = nd.array(h); z.backward(head_gradient); print(x.grad)
\* an exception ends the cell
HeadF(s, x, h) == HeadBack(RecordF(s, x), x, h)

\* x = mx.nd.array(v)
CellX(v) ==
    /\ env.x = 0
    /\ Apply(ArrayF(S, v))
    /\ env' = [env EXCEPT !.x = Len(tensors) + 1]
    /\ UNCHANGED <<iter, pass>>

\* x.attach_grad()
CellAttach ==
    /\ env.x # 0
    /\ Apply(AttachF(S, env.x))
    /\ UNCHANGED <<env, iter, pass>>

\* with ag.record(): y = x * 2; z = y * x
CellRecord ==
    /\ env.x # 0
    /\ Runs(S) < MaxRuns
    /\ Apply(RecordF(S, env.x))
    /\ env' = [env EXCEPT !.y = Len(tensors) + 1, !.z = Len(tensors) + 2]
    /\ UNCHANGED <<iter, pass>>

\* print(x.grad)
CellPrint ==
    /\ env.x # 0
    /\ Apply(GradF(S, env.x))
    /\ UNCHANGED <<env, iter, pass>>

\* z.backward()
CellBackward ==
    /\ env.z # 0
    /\ Apply(BackwardF(S, env.z, NoSeed, 0))
    /\ UNCHANGED <<env, iter, pass>>

\* with ag.record(): y = x * 2; z = y * x
\* head_gradient = nd.array(h); z.backward(head_gradient); print(x.grad)
CellHead(h) ==
    /\ env.x # 0
    /\ Runs(S) < MaxRuns
    /\ Apply(HeadF(S, env.x, h))
    /\ env' = [env EXCEPT !.y = Len(tensors) + 1, !.z = Len(tensors) + 2,
                          !.h = Len(tensors) + 3]
    /\ UNCHANGED <<iter, pass>>

NextCells ==
    \/ \E v \in XVals : CellX(v)
    \/ CellAttach
    \/ CellRecord
    \/ CellBackward
    \/ CellPrint
    \/ \E h \in HeadVals : CellHead(h)

SpecCells == Init /\ [][NextCells]_vars

\* ------------------------------------------------------------------ SpecFlow: control flow
\* a = nd.random_normal(shape=3): a is not all zeros; the values of a are the
\* vectors of -1, 0, 1 that end in 0, times 1..MaxScale
AVals == {ScaleV(NumV(v), Num(j)) :
             v \in {u \in [1..shape_a -> {0 - 1, 0, 1}] :
                      u[shape_a] = 0 /\ u # [i \in 1..shape_a |-> 0]},
             j \in 1..MaxScale}
\* head_gradient = nd.array([0.01, 1.0, .1])
head_c == << Single(Literal(1, 2)), Single(Literal(10, 1)), Single(Literal(1, 1)) >>
CHeads == {head_c, Ramp(shape_a)}
\* the x and the head gradient of z of the cells above
FlowX == {Ramp(XDim)}
FlowHeads == {Tenths(XDim)}

RECURSIVE WhileF(_, _, _)
\* the test of the loop, on the comparison made last: b = b * 2 and again, or out
WhileTest(s, b, k) ==
    IF AsScalar(s, Len(s.tensors))
    THEN WhileF(ScaleF(s, b, Num(2)), Len(s.tensors) + 1, k + 1)
    ELSE [s |-> s, b |-> b, k |-> k]

\* while (nd.norm(b) < 1000).asscalar(): b = b * 2
\* the state after the loop, the b it leaves and the iterations k it made
WhileF(s, b, k) == WhileTest(LessF(NormF(s, b), Len(s.tensors) + 1, Num(threshold)), b, k)

\* the test of the branch, on the comparison made last: c = b or c = 100 * b
IfTest(s, b) ==
    IF AsScalar(s, Len(s.tensors))
    THEN [s |-> s, c |-> b, m |-> 1]
    ELSE [s |-> ScaleF(s, b, Num(100)), c |-> Len(s.tensors) + 1, m |-> 100]

\* a branch that is also taken when the sum is zero
IfGreaterEqual(s, b) == IfTest(GreaterF(SumF(s, b), Len(s.tensors) + 1, Num(0 - 1)), b)

\* if (mx.nd.sum(b) > 0).asscalar(): c = b  else: c = 100 * b
IfF(s, b) == IfTest(GreaterF(SumF(s, b), Len(s.tensors) + 1, Zero), b)

\* a = nd.array(v); a.attach_grad(); with ag.record(): b = a * 2; while ...; if ...
\* the end of the with block, after the branch f
FlowEnd(f, a, k) == [s |-> ExitF(f.s, 1), a |-> a, c |-> f.c, k |-> k, m |-> f.m]
\* the branch, after the loop w
FlowIf(w, a) == FlowEnd(IfF(w.s, w.b), a, w.k)
\* the loop, on the b made last
FlowLoop(s, a) == FlowIf(WhileF(s, Len(s.tensors), 0), a)
FlowF(s, v) ==
    FlowLoop(ScaleF(EnterF(AttachF(ArrayF(s, v), Len(s.tensors) + 1)),
                    Len(s.tensors) + 1, Num(2)),
             Len(s.tensors) + 1)

\* the names the cell binds
FlowTo(r) ==
    /\ Apply(r.s)
    /\ env' = [env EXCEPT !.a = r.a, !.c = r.c, !.k = r.k, !.m = r.m]

\* the control-flow cell
CellFlow(v) ==
    /\ env.a = 0
    /\ FlowTo(FlowF(S, v))
    /\ UNCHANGED <<iter, pass>>

\* head_gradient = nd.array(h); c.backward(head_gradient)
BackCF(s, c, h) == BackwardHead(ArrayF(s, h), c)

CellBackC(h) ==
    /\ env.c # 0
    /\ env.backs < MaxRuns
    /\ Apply(BackCF(S, env.c, h))
    /\ env' = [env EXCEPT !.h = Len(tensors) + 1, !.backs = env.backs + 1]
    /\ UNCHANGED <<iter, pass>>

NextFlow ==
    \/ \E v \in FlowX : CellX(v)
    \/ CellAttach
    \/ CellRecord
    \/ CellBackward
    \/ CellPrint
    \/ \E h \in FlowHeads : CellHead(h)
    \/ \E v \in AVals : CellFlow(v)
    \/ \E h \in CHeads : CellBackC(h)

SpecFlow == Init /\ [][NextFlow]_vars

\* ------------------------------------------------------------------ SpecOrder: forward passes
\* t * 2 on x or a result
OrderScale(a) ==
    /\ env.x # 0
    /\ Len(tensors) < MaxGraph
    /\ Apply(ScaleF(S, a, Num(2)))
    /\ UNCHANGED <<env, iter, pass>>

\* t * u on x or results; all have the shape of x
OrderMul(a, b) ==
    /\ env.x # 0
    /\ Len(tensors) < MaxGraph
    /\ Apply(MulF(S, a, b, 0))
    /\ UNCHANGED <<env, iter, pass>>

\* with ag.record():
OrderRecord ==
    /\ env.x # 0
    /\ scopes = <<>>
    /\ Apply(EnterF(S))
    /\ UNCHANGED <<env, iter, pass>>

\* t.backward() after the block, on a result the block recorded
OrderBackward(t) ==
    /\ scopes = <<>>
    /\ t \in trace
    /\ Apply(BackwardF(S, t, NoSeed, 0))
    /\ UNCHANGED <<env, iter, pass>>

NextOrder ==
    \/ \E v \in FlowX : CellX(v)
    \/ CellAttach
    \/ OrderRecord
    \/ ExitRecord(1)
    \/ \E a \in IdsOf(S) : OrderScale(a)
    \/ \E a \in IdsOf(S), b \in IdsOf(S) : OrderMul(a, b)
    \/ \E t \in IdsOf(S) : OrderBackward(t)

SpecOrder == Init /\ [][NextOrder]_vars

\* ------------------------------------------------------------------ SpecTrain: the training loop
\* X = np.random.randn(10000, 2): the row of example e, doubles, here small
\* whole numbers
XAt(e) == << DNum(((e * 3) % 11) - 5), DNum(((e * 7) % 11) - 5) >>
\* np.random.normal(size=10000): the noise of example e
NoiseOf(e) == DNum((e % 3) - 1)
\* y = 2 * X[:,0] - 3.4 * X[:,1] + 4.2 + .01 * np.random.normal(size=10000),
\* in doubles
YOf(e) ==
    DAdd(DAdd(DSub(DMul(DNum(2), XAt(e)[1]), DMul(Literal(34, 1), XAt(e)[2])),
              Literal(42, 1)),
         DMul(Literal(1, 2), NoiseOf(e)))
\* mx.io.NDArrayIter(X, y, ...): the iterator holds X and y as float32
XData == [e \in 1..num_data |-> << Single(XAt(e)[1]), Single(XAt(e)[2]) >>]
YData == [e \in 1..num_data |-> Single(YOf(e))]
XRow(e) == XData[e]

RECURSIVE Rows(_, _)
\* batch.data[0]: the rows of the first n examples of the batch, one after another
Rows(ex, n) == IF n = 0 THEN <<>> ELSE Rows(ex, n - 1) \o XRow(ex[n])
\* batch.label[0]
Labels(ex) == [j \in 1..Len(ex) |-> YData[ex[j]]]

\* w = nd.random_normal(shape=(2,1)); b = nd.random_normal(shape=1)
ParamVals == { << NumV(<<0, 0>>), NumV(<<0>>) >>, << NumV(<<1, 0 - 1>>), NumV(<<2>>) >> }

\* def net(X): return nd.dot(X, w) + b
NetF(s, X, w, b) == AddF(DotF(s, X, w), Len(s.tensors) + 1, b)

\* def square_loss(yhat, y): return nd.mean((yhat - y) * (yhat-y))
SquareLossF(s, yhat, y) ==
    MeanF(MulF(SubF(SubF(s, yhat, y), yhat, y), Len(s.tensors) + 1, Len(s.tensors) + 2, 0),
          Len(s.tensors) + 3)

\* SGD(params, .001)
lr == Single(Literal(1, 3))

\* lr * param.grad
LrGradF(s, p, rate) == ProduceF(s, Node(ScaleV(s.slot[p], rate), "scale", p, 0, rate))

\* param[:] = t
AssignF(s, p, t) ==
    [s EXCEPT !.tensors[p].val = Val(s, t),
              !.last = Call("assign", p, NoSeed, "none")]

\* param[:] = param - lr * param.grad
UpdateF(s, p, rate) ==
    AssignF(SubF(LrGradF(s, p, rate), p, Len(s.tensors) + 1), p, Len(s.tensors) + 2)

RECURSIVE SGD(_, _, _, _)
\* def SGD(params, lr): for param in params: ...   (the first n of params)
SGD(s, params, rate, n) ==
    IF n = 0 THEN s ELSE UpdateF(SGD(s, params, rate, n - 1), params[n], rate)

\* w = ...; b = ...; params = [w, b]
CellParams(v) ==
    /\ env.w = 0
    /\ Apply(ArrayF(ArrayF(S, v[1]), v[2]))
    /\ env' = [env EXCEPT !.w = Len(tensors) + 1, !.b = Len(tensors) + 2]
    /\ UNCHANGED <<iter, pass>>

\* for param in params: param.attach_grad()
CellAttachParams ==
    /\ env.w # 0
    /\ env.pc = "cells"
    /\ Apply(AttachF(AttachF(S, env.w), env.b))
    /\ UNCHANGED <<env, iter, pass>>

\* the training cell starts: epochs = 2; ctx = mx.cpu(); moving_loss = 0.
\* and range(epochs) is made
TrainBegin ==
    /\ env.pc = "cells"
    /\ env.w # 0
    /\ slot[env.w] # NoGrad /\ slot[env.b] # NoGrad
    /\ env' = [env EXCEPT !.pc = "for_e", !.r = 0, !.moving_loss = DZero, !.updates = 0]
    /\ UNCHANGED <<tensors, slot, trace, recording, scopes, last, iter, pass>>

\* for e in range(epochs): train_data.reset()
\* e is the next value of the range; i keeps what it has
TrainReset(o) ==
    /\ env.pc = "for_e"
    /\ env.r < epochs
    /\ iter' = ResetF(iter, o)
    /\ env' = [env EXCEPT !.pc = "for_i", !.e = env.r, !.r = env.r + 1]
    /\ UNCHANGED <<tensors, slot, trace, recording, scopes, last, pass>>

\* range(epochs) is used up: e keeps its last value
TrainDone ==
    /\ env.pc = "for_e"
    /\ env.r >= epochs
    /\ env' = [env EXCEPT !.pc = "done"]
    /\ UNCHANGED <<tensors, slot, trace, recording, scopes, last, iter, pass>>

\* data = batch.data[0].as_in_context(ctx)
\* label = batch.label[0].as_in_context(ctx).reshape((-1,1))
BatchF(s, ex) ==
    ReshapeF(ArrayF(ArrayF(s, Rows(ex, batch_size)), Labels(ex)), Len(s.tensors) + 2)

\* for i, batch in enumerate(train_data): data = ...; label = ...
\* i counts the batches since the reset of the epoch, from 0
TrainBatch ==
    /\ env.pc = "for_i"
    /\ HasBatch(iter)
    /\ iter' = NextF(iter)
    /\ Apply(BatchF(S, BatchAt(NextF(iter))))
    /\ env' = [env EXCEPT !.pc = "with", !.i = NextF(iter).cursor \div batch_size,
                          !.data = Len(tensors) + 1, !.label = Len(tensors) + 3]
    /\ UNCHANGED pass

\* train_data raises StopIteration: the epoch is over, e and i keep their values
TrainStop ==
    /\ env.pc = "for_i"
    /\ ~HasBatch(iter)
    /\ iter' = NextF(iter)
    /\ env' = [env EXCEPT !.pc = "for_e"]
    /\ UNCHANGED <<tensors, slot, trace, recording, scopes, last, pass>>

\* with autograd.record(): output = net(data); loss = square_loss(output, label)
ForwardF(s, data, label, w, b) ==
    SquareLossF(NetF(EnterF(s), data, w, b), Len(s.tensors) + 2, label)

TrainForward ==
    /\ env.pc = "with"
    /\ Apply(ForwardF(S, env.data, env.label, env.w, env.b))
    /\ env' = [env EXCEPT !.pc = "exit", !.loss = Len(tensors) + 6]
    /\ UNCHANGED <<iter, pass>>

\* the end of the with block
TrainExit ==
    /\ env.pc = "exit"
    /\ Apply(ExitF(S, 1))
    /\ env' = [env EXCEPT !.pc = "backward"]
    /\ UNCHANGED <<iter, pass>>

\* loss.backward()
TrainBackward ==
    /\ env.pc = "backward"
    /\ Apply(BackwardF(S, env.loss, NoSeed, 0))
    /\ env' = [env EXCEPT !.pc = "sgd"]
    /\ UNCHANGED <<iter, pass>>

\* SGD(params, .001)
TrainSGD ==
    /\ env.pc = "sgd"
    /\ Apply(SGD(S, <<env.w, env.b>>, lr, 2))
    /\ env' = [env EXCEPT !.pc = "avg", !.updates = env.updates + 1]
    /\ UNCHANGED <<iter, pass>>

\* if i == 0: moving_loss = np.mean(loss.asnumpy()[0])
\* else: moving_loss = .99 * moving_loss + .01 * np.mean(loss.asnumpy()[0])
\* the mean l is a float32; the products and the sum are doubles, and
\* moving_loss is held as a double, which every float32 is
MovingLoss(old, i, l) ==
    IF i = 0 THEN DOf(l)
    ELSE DAdd(DMul(Literal(99, 2), old), DMul(Literal(1, 2), DOf(l)))

TrainAverage ==
    /\ env.pc = "avg"
    /\ env' = [env EXCEPT !.pc = "for_i",
                          !.moving_loss = MovingLoss(env.moving_loss, env.i,
                                                     Val(S, env.loss)[1])]
    /\ UNCHANGED <<tensors, slot, trace, recording, scopes, last, iter, pass>>

NextTrain ==
    \/ \E v \in ParamVals : CellParams(v)
    \/ CellAttachParams
    \/ TrainBegin
    \/ \E o \in Shuffles : TrainReset(o)
    \/ TrainDone
    \/ TrainBatch
    \/ TrainStop
    \/ TrainForward
    \/ TrainExit
    \/ TrainBackward
    \/ TrainSGD
    \/ TrainAverage

SpecTrain == InitIter /\ [][NextTrain]_vars

NextIter ==
    \/ CellNext
    \/ \E o \in Shuffles : IterReset(o)
    \/ \E o \in Shuffles : CellCountReset(o)
    \/ CellCount

SpecIter == InitIter /\ [][NextIter]_vars

\* ------------------------------------------------------------------ properties
BackwardDone == last.op = "backward" /\ last.err = "none"

\* t is z of  y = x * 2; z = y * x
IsFx(s, t) ==
    /\ s.tensors[t].op = "mul"
    /\ s.tensors[s.tensors[t].a].op = "scale"
    /\ s.tensors[s.tensors[t].a].k = Num(2)
    /\ s.tensors[s.tensors[t].a].a = s.tensors[t].b
    /\ s.tensors[s.tensors[t].b].op = "leaf"
XOf(s, t) == s.tensors[t].b

\* C1: after y = x * 2; z = y * x under record() and z.backward() with no head
\* gradient, the slot of x holds 4 * x elementwise, for every x.
C1_GradIsFourX ==
    (BackwardDone /\ last.seed = NoSeed /\ IsFx(S, last.t)
        /\ slot[XOf(S, last.t)] # NoGrad)
    => slot[XOf(S, last.t)] = ScaleV(Val(S, XOf(S, last.t)), Num(4))

C1_Witness ==
    /\ BackwardDone /\ last.seed = NoSeed /\ IsFx(S, last.t)
    /\ Val(S, XOf(S, last.t)) = NumV(<<1, 2>>)
    /\ slot[XOf(S, last.t)] = NumV(<<4, 8>>)

\* the cell of the head gradient ran to its end: it recorded y and z, made
\* head_gradient, and its print read the slot of x
HeadStep == last'.op = "grad" /\ Len(tensors') = Len(tensors) + 3

\* C2: z.backward(s) on a freshly recorded z = (x * 2) * x leaves the slot of x
\* holding 4 * x * s elementwise, s being the value of head_gradient, also when
\* an earlier backward wrote the slot and nothing cleared it; the print that
\* follows shows it.
C2_HeadGradScales ==
    [][(HeadStep /\ slot[env.x] # NoGrad) =>
        /\ IsFx(S', env'.z)
        /\ XOf(S', env'.z) = env.x
        /\ tensors'[env'.h].op = "leaf"
        /\ slot'[env.x] = BMul(ScaleV(Val(S, env.x), Num(4)), Val(S', env'.h))
        /\ last'.out = slot'[env.x]]_vars

C2_Witness ==
    /\ last.op = "grad" /\ env.h = Len(tensors)
    /\ Runs(S) = 2 /\ trace = {}
    /\ Val(S, env.h) = NumV(<<2, 1>>)
    /\ Val(S, env.x) = NumV(<<1, 2>>)
    /\ last.out = NumV(<<8, 8>>)
    /\ slot[env.x] = NumV(<<8, 8>>)

\* a backward call that returned, seen from the state it was made in
BackwardStep == last'.op = "backward" /\ last'.err = "none"

\* C3 as claimed: a second backward on another result that shares a leaf adds
\* its gradient to what the first one left in the leaf's slot.
C3_Accumulates ==
    [][BackwardStep =>
        LET bp == BackProp(S, last'.t, last'.seed) IN
        \A i \in last'.over : slot'[i] = VAdd(slot[i], bp.g[i])]_vars

\* C3 amended: a second backward on another result that shares a leaf leaves
\* the leaf's slot holding the gradient of the second result only.
C3_Overwrites ==
    [][BackwardStep =>
        LET bp == BackProp(S, last'.t, last'.seed) IN
        \A i \in last'.over : slot'[i] = bp.g[i]]_vars

C3_Witness ==
    /\ BackwardDone
    /\ last.over # {}
    /\ \E t \in IdsOf(S) \ {last.t} :
          /\ tensors[t].op # "leaf"
          /\ InputsOf(S, t) \cap InputsOf(S, last.t) \cap last.over # {}

\* mx.nd.sum(t) recorded, then backward on the scalar
SumThenBackward(s, t) ==
    LET s1 == SumF(EnterF(s), t) IN BackwardF(s1, Len(s1.tensors), NoSeed, 0)

\* C4: backward with no head gradient on a non-scalar result writes the slots
\* that backward with a head gradient of ones writes, and that backward on the
\* sum of the result writes.
C4_DefaultIsOnesIsSum ==
    [][(BackwardStep /\ last'.seed = NoSeed /\ Shape(S, last'.t) > 1) =>
        /\ slot' = BackwardF(S, last'.t, Ones(Shape(S, last'.t)), 0).slot
        /\ slot' = SubSeq(SumThenBackward(S, last'.t).slot, 1, Len(slot))]_vars

C4_Witness ==
    /\ BackwardDone /\ last.seed = NoSeed
    /\ Shape(S, last.t) > 1
    /\ \E i \in InputsOf(S, last.t) : slot[i] # NoGrad /\ slot[i] # Zeros(Shape(S, i))

\* C6: leaving a recording scope, by the end of the block, a return or an
\* exception, puts back the recording state that held when the outermost scope
\* left was entered.
C6_ExitRestores ==
    [][Len(scopes') < Len(scopes) => recording' = scopes[Len(scopes') + 1]]_vars

C6_Witness ==
    /\ last.op = "mul" /\ last.err = "ShapeMismatch"
    /\ last.left = 2
    /\ scopes = <<>>
    /\ recording = FALSE

\* a primitive operation returned a tensor
OpStep == last'.op \in {"scale", "mul", "sum"} /\ last'.err = "none"

\* C7: the Trace grows only by an operation made while recording, which adds
\* the one record of its output; an operation made while not recording adds
\* its output tensor and changes nothing else.
C7_TraceGrowsOnlyRecording ==
    [][/\ (trace' \ trace # {}) => (OpStep /\ recording)
       /\ OpStep =>
            /\ Len(tensors') = Len(tensors) + 1
            /\ SubSeq(tensors', 1, Len(tensors)) = tensors
            /\ slot' = Append(slot, NoGrad)
            /\ recording' = recording /\ scopes' = scopes
            /\ trace' = IF recording THEN trace \cup {Len(tensors')} ELSE trace
            /\ recording => Cardinality(trace') = Cardinality(trace) + 1]_vars

C7_Witness ==
    /\ last.op = "scale" /\ last.err = "none"
    /\ recording = FALSE
    /\ last.t \notin trace
    /\ trace # {}

\* C8: a tensor without a gradient slot gets none from any call but
\* attach_grad on it: backward writes no gradient to it.
C8_NoSlotNoGradient ==
    [][\A t \in IdsOf(S) :
          (slot[t] = NoGrad /\ ~(last'.op = "attach_grad" /\ last'.t = t))
          => slot'[t] = NoGrad]_vars

C8_Witness ==
    /\ BackwardDone
    /\ tensors[last.t].op = "mul"
    /\ slot[tensors[last.t].a] = NoGrad
    /\ tensors[tensors[last.t].a].op = "leaf"
    /\ slot[tensors[last.t].b] \notin {NoGrad, Zeros(Shape(S, tensors[last.t].b))}

RECURSIVE ReachFrom(_, _, _)
\* the tensors reachable from the set ts through the records of the Trace
ReachFrom(s, ts, n) ==
    IF n = 0 THEN ts
    ELSE ReachFrom(s, ts \cup UNION {InputsOf(s, t) : t \in ts \cap s.trace}, n - 1)

\* the tensors with a slot that the Trace reaches from t without a record of their own
DiffLeaves(s, t) ==
    {i \in ReachFrom(s, {t}, Len(s.tensors)) : i \notin s.trace /\ s.slot[i] # NoGrad}

\* C9: a backward call that fails leaves every slot and the Trace as they were;
\* one that returns has written the gradient of the pass into the slot of every
\* differentiable leaf reachable from the result, and into no other slot.
C9_BackwardAllOrNothing ==
    [][/\ (last'.op = "backward" /\ last'.err # "none") =>
            (slot' = slot /\ trace' = trace /\ tensors' = tensors)
       /\ BackwardStep =>
            LET bp == BackProp(S, last'.t, last'.seed) IN
            \A i \in IdsOf(S) :
                slot'[i] = IF i \in DiffLeaves(S, last'.t) THEN bp.g[i] ELSE slot[i]]_vars

C9_Witness ==
    /\ last.op = "backward" /\ last.err = "SeedShapeMismatch"
    /\ \E i \in IdsOf(S) : slot[i] \notin {NoGrad, Zeros(Shape(S, i))}

\* C10: backward on a tensor that has no record in the Trace fails with
\* NoGraph; a backward that returns has discarded the records it went through,
\* a tensor never gets a record after it was produced, and so a second
\* backward on the same result fails with NoGraph.
C10_NoGraph ==
    [][/\ (last'.op = "backward" /\ last'.t \notin trace) => last'.err = "NoGraph"
       /\ BackwardStep => (last'.t \in trace /\ last'.t \notin trace')
       /\ \A t \in IdsOf(S) : t \notin trace => t \notin trace'
       /\ (BackwardDone /\ last'.op = "backward" /\ last'.t = last.t)
            => last'.err = "NoGraph"]_vars

C10_Witness ==
    /\ Len(tensors) = 2
    /\ last.op = "backward" /\ last.err = "NoGraph" /\ last.t = 2
    /\ slot[1] \notin {NoGrad, Zeros(Shape(S, 1))}

RECURSIVE Pow2(_)
Pow2(n) == IF n = 0 THEN 1 ELSE 2 * Pow2(n - 1)

\* the whole number a float holds
IntOf(x) == x.m * 2^x.e
RECURSIVE IntSum(_, _)
IntSum(v, n) == IF n = 0 THEN 0 ELSE IntSum(v, n - 1) + v[n]

RECURSIVE KFrom(_, _)
\* the least k >= k0 for which the norm of v * 2^(k+1) is not below the
\* threshold, for a vector v of whole numbers
KFrom(v, k0) ==
    IF IntSum([i \in 1..Len(v) |-> IntOf(v[i]) * IntOf(v[i])], Len(v))
          * Pow2(k0 + 1) * Pow2(k0 + 1) >= threshold * threshold
    THEN k0 ELSE KFrom(v, k0 + 1)
\* the factor of the branch for input v
MOf(v) == IF IntSum([i \in 1..Len(v) |-> IntOf(v[i])], Len(v)) > 0 THEN 1 ELSE 100

\* c.backward(head_gradient) returned
BackCDone == BackwardDone /\ env.c # 0 /\ last.t = env.c

\* C11: after the control-flow cell and c.backward(s), the slot of a holds
\* s * 2^(k+1) * m elementwise, where k is the number of iterations the loop
\* made and m the factor of the branch taken; k and m are those the value of a
\* determines, so that inputs on the same path share the rule and an input
\* across a threshold gets another.
C11_PathDerivative ==
    BackCDone =>
        /\ env.k = KFrom(Val(S, env.a), 0)
        /\ env.m = MOf(Val(S, env.a))
        /\ slot[env.a] = [i \in 1..shape_a |->
                           NMul(last.seed[i], Num(Pow2(env.k + 1) * env.m))]

C11_Witness ==
    /\ BackCDone
    /\ Val(S, env.a) = NumV(<<1, 0 - 1, 0>>)
    /\ env.k = 9 /\ env.m = 100
    /\ last.seed = NumV(<<2, 1, 2>>)
    /\ slot[env.a] = NumV(<<204800, 102400, 204800>>)

\* the records of the comparisons and of the norm and sum they compare
ControlNodes(s) ==
    {i \in IdsOf(s) : \/ s.tensors[i].op \in {"lt", "gt", "norm"}
                      \/ \E j \in IdsOf(s) : s.tensors[j].op = "gt" /\ s.tensors[j].a = i}

Fresh == [tensors |-> <<>>, slot |-> <<>>, trace |-> {}, recording |-> FALSE,
          scopes |-> <<>>, last |-> Call("init", 0, NoSeed, "none")]

RECURSIVE Doubled(_, _)
\* b = b * 2, n times, on the last tensor made
Doubled(s, n) == IF n = 0 THEN s ELSE Doubled(ScaleF(s, Len(s.tensors), Num(2)), n - 1)

\* the path with k iterations and factor m recorded on its own, without the
\* comparisons: b = a * 2; b = b * 2 (k times); c = b or c = 100 * b
PathOnly(v, k, m) ==
    LET s1 == Doubled(EnterF(AttachF(ArrayF(Fresh, v), 1)), k + 1)
    IN  IF m = 1 THEN s1 ELSE ScaleF(s1, Len(s1.tensors), Num(m))

\* C12: the comparisons of the control-flow cell contribute no gradient: the
\* backward pass from c goes through no record of a comparison, of the norm or
\* of the sum compared, leaves those records in the Trace, and writes to the
\* slot of a what it writes when the path is recorded without them.
C12_ComparisonsNoGradient ==
    [][(BackwardStep /\ env.c # 0 /\ last'.t = env.c) =>
        LET bp == BackProp(S, env.c, last'.seed)
            p == PathOnly(Val(S, env.a), env.k, env.m)
        IN  /\ Consumed(S, bp) \cap ControlNodes(S) = {}
            /\ trace' \cap ControlNodes(S) = trace \cap ControlNodes(S)
            /\ slot'[env.a] = BackwardF(p, Len(p.tensors), last'.seed, 0).slot[1]]_vars

C12_Witness ==
    /\ BackCDone
    /\ env.m = 1 /\ env.k = 8
    /\ Val(S, env.a) = NumV(<<2, 0, 0>>)
    /\ last.seed = head_c
    /\ Cardinality(trace \cap ControlNodes(S)) = 2 * (env.k + 1) + 2
    /\ slot[env.a] = << [m |-> 5368709, e |-> 0 - 20], Num(512), [m |-> 13421773, e |-> 0 - 18] >>

\* C18: a backward call leaves the slot of every tensor that the Trace does
\* not reach from the result as it was; after c.backward(head_gradient) the
\* slot of x still holds what z.backward() wrote.
C18_UnreachedSlotsKept ==
    [][BackwardStep =>
        \A i \in IdsOf(S) :
            (slot[i] # NoGrad /\ i \notin ReachFrom(S, {last'.t}, Len(tensors)))
            => slot'[i] = slot[i]]_vars

C18_Witness ==
    /\ BackCDone
    /\ env.x # 0
    /\ Val(S, env.x) = NumV(<<2, 1>>)
    /\ slot[env.x] = NumV(<<8, 4>>)
    /\ slot[env.a] # Zeros(shape_a)

\* C13: attach_grad on a tensor without a slot makes a zero slot of its shape,
\* attach_grad on a tensor with a slot keeps what the slot holds, and changes
\* no other slot; grad on a tensor without a slot fails with NotDifferentiable
\* and on a tensor with a slot returns what the slot holds.
C13_AttachIdempotent ==
    [][/\ last'.op = "attach_grad" =>
            \A i \in IdsOf(S) :
                slot'[i] = IF i = last'.t /\ slot[i] = NoGrad
                           THEN Zeros(Shape(S, i)) ELSE slot[i]
       /\ (last'.op = "grad" /\ slot[last'.t] = NoGrad) =>
            (last'.err = "NotDifferentiable" /\ slot'[last'.t] = NoGrad)
       /\ (last'.op = "grad" /\ slot[last'.t] # NoGrad) =>
            (last'.err = "none" /\ last'.out = slot'[last'.t])]_vars

C13_Witness ==
    /\ last.op = "attach_grad"
    /\ last.over = {env.x}
    /\ Val(S, env.x) = NumV(<<1, 2>>)
    /\ slot[env.x] = NumV(<<4, 8>>)

\* C14: with nested recording scopes, recording is on exactly while a scope is
\* open: leaving an inner scope leaves it on, and it is off again only when as
\* many scopes were left as were entered.
C14_NestedRecording ==
    /\ recording <=> Len(scopes) > 0
    /\ \A i \in 1..Len(scopes) : scopes[i] <=> i > 1

C14_Witness ==
    /\ last.op = "exit" /\ last.left = 1
    /\ Len(scopes) = 1
    /\ recording
    /\ trace # {}

\* the place of record i in the order of a pass
Place(order, i) == CHOOSE p \in 1..Len(order) : order[p] = i

\* C15: a backward pass processes every record the Trace reaches from the
\* result exactly once, and a record only after every record that consumes its
\* output, also when two records consume it; in z = (x * 2) * x the record of
\* y comes after the record of z.
C15_ProcessingOrder ==
    [][BackwardStep =>
        LET bp == BackProp(S, last'.t, last'.seed)
            recs == ReachFrom(S, {last'.t}, Len(tensors)) \cap trace
        IN  /\ {bp.order[p] : p \in 1..Len(bp.order)} = recs
            /\ Len(bp.order) = Cardinality(recs)
            /\ \A i \in recs : \A c \in recs :
                   i \in InputsOf(S, c) => Place(bp.order, c) < Place(bp.order, i)
            /\ (IsFx(S, last'.t) /\ tensors[last'.t].a \in trace) =>
                   bp.order = <<last'.t, tensors[last'.t].a>>
            /\ recs \cap trace' = {}]_vars

\* y = x * 2; u = y * 2; w = y * u and w.backward(): y feeds u and w, and the
\* slot of x holds the derivative 16 * x of w = 8 * x * x
C15_Witness ==
    /\ BackwardDone /\ last.t = 4
    /\ Len(tensors) = 4
    /\ tensors[2].op = "scale" /\ tensors[2].a = 1
    /\ tensors[3].op = "scale" /\ tensors[3].a = 2
    /\ tensors[4].op = "mul" /\ tensors[4].a = 2 /\ tensors[4].b = 3
    /\ trace = {}
    /\ Val(S, 4) = BMul(ScaleV(Val(S, 1), Num(8)), Val(S, 1))
    /\ slot[1] = ScaleV(Val(S, 1), Num(16))

\* the examples of a pass, in the order they came
RECURSIVE Flatten(_, _)
Flatten(bs, n) == IF n = 0 THEN <<>> ELSE Flatten(bs, n - 1) \o bs[n]
Examples(p) == Flatten(p.batches, Len(p.batches))
counter == Len(pass.batches)

\* C5: a loop over an iterator on which next() has raised StopIteration since
\* the last reset gets no batch; a loop that starts right after a reset gets
\* every example exactly once, in num_data / batch_size batches.
C5_ExhaustedUntilReset ==
    pass.ran =>
        /\ pass.stopped => counter = 0
        /\ pass.fresh =>
              /\ counter = NumBatches
              /\ \A e \in 1..num_data :
                    Cardinality({j \in 1..Len(Examples(pass)) : Examples(pass)[j] = e}) = 1

C5_Witness ==
    /\ pass.ran /\ pass.stopped /\ counter = 0
    /\ iter.cursor > num_data

\* C17: a loop that starts right after a reset gets num_data / batch_size
\* batches of batch_size examples, wherever the cursor was before the reset:
\* before the first batch, on a batch that next() returned, or past the end.
C17_FullPassAfterReset ==
    (pass.ran /\ pass.fresh) =>
        /\ pass.before \in {(j - 1) * batch_size : j \in 0..(NumBatches + MaxOver)}
        /\ counter * batch_size = num_data
        /\ \A j \in 1..counter : Len(pass.batches[j]) = batch_size

C17_Witness ==
    /\ pass.ran /\ pass.fresh
    /\ pass.before = 0
    /\ counter = num_data \div batch_size

\* the residuals of the linear model on the batch: X w + b - y
Residuals(X, y, w, b) ==
    [i \in 1..Len(y) |->
        NSub(NAdd(NAdd(NMul(X[2 * i - 1], w[1]), NMul(X[2 * i], w[2])), b[1]), y[i])]

\* (2 / n) X^T d and (2 / n) sum(d)
GradW(X, d) ==
    [j \in 1..2 |->
        NDiv(NMul(Num(2), SumTo([i \in 1..Len(d) |-> NMul(X[(i - 1) * 2 + j], d[i])],
                                Len(d))), Num(Len(d)))]
GradB(d) == <<NDiv(NMul(Num(2), SumTo(d, Len(d))), Num(Len(d)))>>

\* floats that differ by rounding only: u and v are sums of terms, a is the
\* sum of the magnitudes of the terms of v, and every operation rounds to
\* Digits bits, so u and v differ by a few units in the last bit of a
NAbs(x) == [m |-> Abs(x.m), e |-> x.e]
NAbsV(v) == [i \in 1..Len(v) |-> NAbs(v[i])]
Tol == [m |-> 1, e |-> 0 - (Digits - 4)]
Close(u, v, a) ==
    /\ Len(u) = Len(v)
    /\ \A i \in 1..Len(v) :
          ~NLess(NMul(Tol, NAdd(One, a[i])), NAbs(NSub(u[i], v[i])))

\* the slots after the forward pass of the batch and backward, made again
\* with the slots of the parameters zeroed first
FromZeroed(s, data, label, w, b) ==
    LET z == [s EXCEPT !.slot[w] = Zeros(Shape(s, w)), !.slot[b] = Zeros(Shape(s, b))]
        f == ExitF(ForwardF(z, data, label, w, b), 1)
    IN  BackwardF(f, Len(f.tensors), NoSeed, 0).slot

\* C16: when SGD runs, the slot of each parameter holds the gradient of the
\* loss of the current batch at the current parameters, (2 / n) X^T (X w + b - y)
\* for w and (2 / n) sum(X w + b - y) for b up to the rounding of the floats,
\* and exactly what the pass writes into zeroed slots, whatever earlier
\* batches left in the slots, which the loop never clears.
C16_GradOfCurrentBatch ==
    env.pc = "sgd" =>
        LET X == Val(S, env.data)
            y == Val(S, env.label)
            d == Residuals(X, y, Val(S, env.w), Val(S, env.b))
            z == FromZeroed(S, env.data, env.label, env.w, env.b)
        IN  /\ X = Rows(BatchAt(iter), batch_size)
            /\ y = Labels(BatchAt(iter))
            /\ Close(slot[env.w], GradW(X, d), GradW(NAbsV(X), NAbsV(d)))
            /\ Close(slot[env.b], GradB(d), GradB(NAbsV(d)))
            /\ slot[env.w] = z[env.w]
            /\ slot[env.b] = z[env.b]

C16_Witness ==
    /\ env.pc = "sgd"
    /\ env.e = 1 /\ env.i = 1
    /\ env.updates = epochs * NumBatches - 1
    /\ last.over = {env.w, env.b}

\* one step of the training loop
TrainStep(from, to) == env.pc = from /\ env'.pc = to

\* where the loop stands inside an iteration, after it got the batch
Stages == <<"with", "exit", "backward", "sgd", "avg">>
StageOf(pc) == CHOOSE p \in 1..Len(Stages) : Stages[p] = pc
\* the steps of one iteration: the batch, then one step from each stage
IterSteps == Len(Stages) + 1
\* the steps of one epoch: reset, the iterations, StopIteration
EpochSteps == IterSteps * (num_data \div batch_size) + 2

\* the steps the training loop has left: the epochs to come, the batches
\* train_data still holds, and the rest of the iteration under way
StepsLeft ==
    LET later == (epochs - env.r) * EpochSteps + 1
        batches == (num_data - iter.cursor - batch_size) \div batch_size
        here == later + 1 + batches * IterSteps
    IN  CASE env.pc = "done" -> 0
          [] env.pc = "for_e" -> later
          [] env.pc = "for_i" -> here
          [] env.pc \in {Stages[p] : p \in 1..Len(Stages)} ->
                here + Len(Stages) + 1 - StageOf(env.pc)
          [] OTHER -> epochs * EpochSteps + 2

\* C19: the training loop ends, after epochs * (num_data / batch_size)
\* parameter updates: every step of the loop leaves one step less to go, and
\* none is left when it is done; every epoch starts with a reset of the
\* iterator; an iteration is the forward pass under recording, the exit of the
\* scope, backward, the SGD update, the moving average of the loss, in this
\* order; backward and the update run with recording off, and the update adds
\* nothing to the Trace; e and i are the epoch and the batch under way.
C19_TrainingLoop ==
       [][/\ env'.pc # env.pc => (StepsLeft' = StepsLeft - 1 /\ StepsLeft' >= 0)
          /\ env'.pc = env.pc => UNCHANGED <<env.e, env.i, env.updates>>
          /\ TrainStep("for_e", "for_i") =>
                /\ iter'.cursor = 0 - batch_size /\ iter'.fresh
                /\ env'.e = env.updates \div NumBatches
                /\ env'.i = env.i
          /\ TrainStep("for_i", "for_e") => (env'.e = env.e /\ env'.i = NumBatches - 1)
          /\ TrainStep("with", "exit") =>
                (recording' /\ trace' # {} /\ env'.loss \in trace' /\ env.updates = env.e * NumBatches + env.i)
          /\ TrainStep("exit", "backward") => (recording /\ ~recording')
          /\ TrainStep("backward", "sgd") =>
                (~recording /\ last'.op = "backward" /\ last'.err = "none" /\ trace' = {})
          /\ TrainStep("sgd", "avg") =>
                /\ ~recording /\ ~recording'
                /\ trace' = trace
                /\ env'.updates = env.updates + 1
                /\ \A p \in {env.w, env.b} :
                      /\ Val(S, p)' = BSub(Val(S, p), ScaleV(slot[p], lr))
                      /\ p \notin trace'
          /\ env.pc = "with" => env'.pc \in {"with", "exit"}
          /\ env.pc = "exit" => env'.pc \in {"exit", "backward"}
          /\ env.pc = "backward" => env'.pc \in {"backward", "sgd"}
          /\ env.pc = "sgd" => env'.pc \in {"sgd", "avg"}
          /\ env.pc = "avg" => env'.pc \in {"avg", "for_i"}
          /\ TrainStep("avg", "for_i") =>
                env'.moving_loss = MovingLoss(env.moving_loss, env.i, Val(S, env.loss)[1])
          /\ env'.pc = "done" => env'.updates = epochs * (num_data \div batch_size)]_vars

C19_Witness ==
    /\ env.pc = "done"
    /\ env.updates = epochs * NumBatches
    /\ env.e = epochs - 1 /\ env.i = NumBatches - 1
    /\ Val(S, env.w) # NumV(<<0, 0>>) /\ Val(S, env.w) # NumV(<<1, 0 - 1>>)
    /\ env.moving_loss # DZero
    /\ trace = {} /\ ~recording

====
